---- MODULE Spec2Model ----
(***************************************************************************)
(* Model of the calculator engine of src/calculator/main.py:               *)
(* CalculatorApp.button_clicked with format_number, calculate and reset.   *)
(*                                                                         *)
(* Python values are records [t, s, v]: t is the Python type ("str",       *)
(* "int", "float", "None"), s the characters of a str, v the number.       *)
(* A float is held exactly, as an integer count of 1/Den units, Den a      *)
(* power of two: on these dyadic values binary64 arithmetic is exact, so   *)
(* no rounding is invented.  A float outside that set (1/3, sin 30, pi) is *)
(* only ever met as the text str() makes of it; an event that would have   *)
(* to compute with such a value, a result of calculate beyond MaxAcc and   *)
(* a digit appended to a text of MaxLen characters lie outside the bounds  *)
(* of the model and are not taken.                                         *)
(*                                                                         *)
(* An exception that leaves button_clicked is recorded in raised; the      *)
(* assignments made before it stay, and the next press is handled as       *)
(* usual.                                                                  *)
(***************************************************************************)
EXTENDS Integers, Sequences, FiniteSets, TLC

\* ------------------------------------------------------------------ bounds
\* digit entry extends a text only while it is shorter than this
MaxLen == 2
\* largest magnitude of a number read back from the display
MaxAbs == 100
\* largest magnitude of a result of calculate
MaxAcc == 6
\* number of binary fraction digits of the numbers the model computes with
FracBits == 1

Den == 2 ^ FracBits
Lim == MaxAbs * Den
InD(k) == (k >= -Lim) /\ (k <= Lim)
InAcc(k) == (k >= -(MaxAcc * Den)) /\ (k <= MaxAcc * Den)

Abs(k) == IF k < 0 THEN -k ELSE k

\* ------------------------------------------------------------ Python values
StrV(s) == [t |-> "str", s |-> s, v |-> 0]
IntV(n) == [t |-> "int", s |-> <<>>, v |-> n]
FloatV(k) == [t |-> "float", s |-> <<>>, v |-> k]
NoneV == [t |-> "None", s |-> <<>>, v |-> 0]

\* the literal "Error" and the literal "0"
ErrorStr == StrV(<<"E", "r", "r", "o", "r">>)
ZeroStr == StrV(<<"0">>)

DigitChars == {"0", "1", "2", "3", "4", "5", "6", "7", "8", "9"}

DigitVal(c) ==
    CASE c = "0" -> 0 [] c = "1" -> 1 [] c = "2" -> 2 [] c = "3" -> 3
      [] c = "4" -> 4 [] c = "5" -> 5 [] c = "6" -> 6 [] c = "7" -> 7
      [] c = "8" -> 8 [] c = "9" -> 9

DigitChar(d) ==
    CASE d = 0 -> "0" [] d = 1 -> "1" [] d = 2 -> "2" [] d = 3 -> "3"
      [] d = 4 -> "4" [] d = 5 -> "5" [] d = 6 -> "6" [] d = 7 -> "7"
      [] d = 8 -> "8" [] d = 9 -> "9"

\* "~" stands for the digits of the repr of a finite float that is not a
\* multiple of 1/Den of magnitude at most MaxAbs (such a repr always holds a
\* "." or an exponent); it is as wide as the longest repr.
OutChar == "~"
ReprWidth == 17
OutRepr == <<OutChar>>

\* str(math.pi)
PiRepr == <<"3", ".", "1", "4", "1", "5", "9", "2", "6", "5", "3", "5", "8",
            "9", "7", "9", "3">>

\* str() of a complex number, "(re+imj)"
ComplexRepr == <<"(", OutChar, "+", OutChar, "j", ")">>

RECURSIVE Width(_)
Width(s) ==
    IF s = <<>> THEN 0
    ELSE (IF Head(s) = OutChar THEN ReprWidth ELSE 1) + Width(Tail(s))

\* ------------------------------------------------------------- str(number)
RECURSIVE NatStr(_)
NatStr(n) ==
    IF n < 10 THEN <<DigitChar(n)>>
    ELSE NatStr(n \div 10) \o <<DigitChar(n % 10)>>

\* str(int)
IntStr(n) == IF n < 0 THEN <<"-">> \o NatStr(-n) ELSE NatStr(n)

\* decimal digits of the fraction r/Den, 0 <= r < Den
RECURSIVE FracStr(_)
FracStr(r) ==
    IF r = 0 THEN <<>>
    ELSE <<DigitChar((r * 10) \div Den)>> \o FracStr((r * 10) % Den)

\* str(float) for the float k/Den: shortest repr, always with a fraction part
FloatStr(k) ==
    LET a == Abs(k)
        frac == IF a % Den = 0 THEN <<"0">> ELSE FracStr(a % Den)
    IN  (IF k < 0 THEN <<"-">> ELSE <<>>) \o NatStr(a \div Den) \o <<".">> \o frac

\* str(x) for a Python value
PyStr(x) ==
    CASE x.t = "str" -> x.s
      [] x.t = "int" -> IntStr(x.v)
      [] x.t = "float" -> FloatStr(x.v)
      [] x.t = "None" -> <<"N", "o", "n", "e">>

\* -------------------------------------------------------------- float(str)
RECURSIVE CountIn(_, _)
CountIn(s, cs) ==
    IF s = <<>> THEN 0
    ELSE (IF Head(s) \in cs THEN 1 ELSE 0) + CountIn(Tail(s), cs)

\* the digits of s read as one natural number, the point skipped
RECURSIVE Mantissa(_, _)
Mantissa(s, acc) ==
    IF s = <<>> THEN acc
    ELSE IF Head(s) \in DigitChars
         THEN Mantissa(Tail(s), acc * 10 + DigitVal(Head(s)))
         ELSE Mantissa(Tail(s), acc)

\* number of characters after the point (0 when there is none)
RECURSIVE AfterPoint(_)
AfterPoint(s) ==
    IF s = <<>> THEN 0
    ELSE IF Head(s) = "." THEN Len(s) - 1
    ELSE AfterPoint(Tail(s))

\* float(s) for a str s made of the characters the engine can put on the
\* display: an optional leading "-", digits with at most one point and at
\* least one digit.  ok: the text parses (otherwise ValueError); out: it
\* parses to a float outside the numbers the model computes with; v: the
\* value in 1/Den units.
ParseText(s) ==
    LET neg == (s # <<>>) /\ (Head(s) = "-")
        body == IF neg THEN Tail(s) ELSE s
        ok == /\ CountIn(body, DigitChars \cup {".", OutChar}) = Len(body)
              /\ CountIn(body, {".", OutChar}) <= 1
              /\ CountIn(body, DigitChars \cup {OutChar}) >= 1
        long == (CountIn(body, {OutChar}) > 0) \/ (Len(body) > 9)
        m == IF ok /\ ~long THEN Mantissa(body, 0) * Den ELSE 0
        p == IF ok /\ ~long THEN 10 ^ AfterPoint(body) ELSE 1
        k == IF neg THEN -(m \div p) ELSE m \div p
    IN  [ok |-> ok, out |-> ok /\ (long \/ (m % p # 0) \/ ~InD(k)), v |-> k]

\* float(x) for a Python value x.  exc names the exception raised, if any.
ToFloat(x) ==
    CASE x.t = "str" ->
           LET p == ParseText(x.s)
           IN  IF p.ok THEN [exc |-> "none", out |-> p.out, v |-> p.v]
               ELSE [exc |-> "ValueError", out |-> FALSE, v |-> 0]
      [] x.t = "int" -> [exc |-> "none", out |-> FALSE, v |-> x.v * Den]
      [] x.t = "float" -> [exc |-> "none", out |-> FALSE, v |-> x.v]
      [] x.t = "None" -> [exc |-> "TypeError", out |-> FALSE, v |-> 0]

\* ------------------------------------------------------------ format_number
\* num % 1 == 0 ? int(num) : num, for the float k/Den
format_number(k) == IF k % Den = 0 THEN IntV(k \div Den) ELSE FloatV(k)

\* ---------------------------------------------------------------- calculate
IsNumber(x) == x.t \in {"int", "float"}

\* the value of a Python number in 1/Den units
Units(x) == IF x.t = "int" THEN x.v * Den ELSE x.v

Computed(k) == [exc |-> "none", out |-> ~InAcc(k), val |-> format_number(k)]
Returned(x) == [exc |-> "none", out |-> FALSE, val |-> x]
Inexact == [exc |-> "none", out |-> TRUE, val |-> NoneV]
Raise(e) == [exc |-> e, out |-> FALSE, val |-> NoneV]

\* calculate with the operands of "-" taken in the wrong order
calculate_swapped(op1, b, op) ==
    LET a == Units(op1)
    IN  CASE op = "+" -> IF IsNumber(op1) THEN Computed(a + b) ELSE Raise("TypeError")
          [] op = "-" -> IF IsNumber(op1) THEN Computed(b - a) ELSE Raise("TypeError")
          [] op = "*" -> IF ~IsNumber(op1) THEN Raise("TypeError")
                         ELSE IF (a * b) % Den = 0 THEN Computed((a * b) \div Den)
                         ELSE Inexact
          [] op = "/" -> IF b = 0 THEN Returned(ErrorStr)
                         ELSE IF ~IsNumber(op1) THEN Raise("TypeError")
                         ELSE IF (a * Den) % Abs(b) = 0
                              THEN Computed(IF b < 0 THEN -((a * Den) \div (-b))
                                            ELSE (a * Den) \div b)
                         ELSE Inexact
          [] OTHER -> Returned(NoneV)

\* calculate(operand1, operand2, operator), operand2 the float b/Den.
\* exc: the exception the arithmetic raises (a str operand1); out: the result
\* is a float the model does not compute with; val: the value returned.
calculate(op1, b, op) ==
    LET a == Units(op1)
    IN  CASE op = "+" -> IF IsNumber(op1) THEN Computed(a + b) ELSE Raise("TypeError")
          [] op = "-" -> IF IsNumber(op1) THEN Computed(a - b) ELSE Raise("TypeError")
          [] op = "*" -> IF ~IsNumber(op1) THEN Raise("TypeError")
                         ELSE IF (a * b) % Den = 0 THEN Computed((a * b) \div Den)
                         ELSE Inexact
          [] op = "/" -> IF b = 0 THEN Returned(ErrorStr)
                         ELSE IF ~IsNumber(op1) THEN Raise("TypeError")
                         ELSE IF (a * Den) % Abs(b) = 0
                              THEN Computed(IF b < 0 THEN -((a * Den) \div (-b))
                                            ELSE (a * Den) \div b)
                         ELSE Inexact
          [] OTHER -> Returned(NoneV)

\* ------------------------------------------------------------- math library
\* A float result: out when it is not a multiple of 1/Den within MaxAbs
\* (then only its repr is known), else v in 1/Den units.
Exact(k) == [out |-> ~InD(k), v |-> k]
Irrational == [out |-> TRUE, v |-> 0]

\* str(f) for a float result
FloatRepr(f) == IF f.out THEN OutRepr ELSE FloatStr(f.v)

HasRoot(k) == \E r \in 0..Lim : r * r = k * Den
RootOf(k) == CHOOSE r \in 0..Lim : r * r = k * Den

\* math.sqrt(k/Den) for k >= 0: exact on the squares, irrational elsewhere
MathSqrt(k) == IF HasRoot(k) THEN Exact(RootOf(k)) ELSE Irrational

\* math.log10(k/Den) for k > 0 (k/Den < 1000)
MathLog10(k) ==
    CASE k = Den -> Exact(0)
      [] k = 10 * Den -> Exact(Den)
      [] k = 100 * Den -> Exact(2 * Den)
      [] OTHER -> Irrational

\* math.log(k/Den) for k > 0
MathLog(k) == IF k = Den THEN Exact(0) ELSE Irrational

\* math.sin, math.cos, math.tan of math.radians(k/Den), for |k/Den| < 390:
\* the results that are multiples of 1/Den are exactly these
MathSinDeg(k) ==
    CASE k = 0 -> Exact(0)
      [] k = 90 * Den \/ k = -270 * Den -> Exact(Den)
      [] k = -90 * Den \/ k = 270 * Den -> Exact(-Den)
      [] OTHER -> Irrational

MathCosDeg(k) ==
    CASE k = 0 \/ Abs(k) = 360 * Den -> Exact(Den)
      [] Abs(k) = 180 * Den -> Exact(-Den)
      [] OTHER -> Irrational

MathTanDeg(k) == IF k = 0 THEN Exact(0) ELSE Irrational

\* a ** m for a natural number m, by repeated multiplication; a product that
\* leaves the multiples of 1/Den within MaxAbs never comes back
RECURSIVE PowNat(_, _)
PowNat(a, m) ==
    IF m = 0 THEN Exact(Den)
    ELSE LET r == PowNat(a, m - 1)
         IN  IF r.out THEN r
             ELSE IF (r.v * a) % Den # 0 THEN Irrational
             ELSE Exact((r.v * a) \div Den)

\* a ** m for an integer m and a # 0 when m < 0
PowInt(a, m) ==
    IF m >= 0 THEN PowNat(a, m)
    ELSE IF (Den * Den) % Abs(a) # 0 THEN Irrational
    ELSE LET inv == IF a < 0 THEN -((Den * Den) \div (-a)) ELSE (Den * Den) \div a
         IN  IF InD(inv) THEN PowNat(inv, -m) ELSE Irrational

\* a ** (num/den) for a > 0 and den a power of two
RECURSIVE PowFrac(_, _, _)
PowFrac(a, num, den) ==
    IF den = 1 THEN PowInt(a, num)
    ELSE IF num % 2 = 0 THEN PowFrac(a, num \div 2, den \div 2)
    ELSE IF HasRoot(a) THEN PowFrac(RootOf(a), num, den \div 2)
    ELSE Irrational

\* operand1 ** operand2 on floats a/Den and b/Den. kind: "float", "complex"
\* (a negative base with a fractional exponent) or the exception raised.
PyPow(a, b) ==
    IF b % Den = 0
    THEN IF a = 0 /\ b < 0 THEN [kind |-> "ZeroDivisionError", f |-> Irrational]
         ELSE [kind |-> "float", f |-> PowInt(a, b \div Den)]
    ELSE IF a < 0 THEN [kind |-> "complex", f |-> Irrational]
    ELSE IF a = 0
         THEN IF b < 0 THEN [kind |-> "ZeroDivisionError", f |-> Irrational]
              ELSE [kind |-> "float", f |-> Exact(0)]
    ELSE [kind |-> "float", f |-> PowFrac(a, b, Den)]

\* -------------------------------------------------------------------- state
VARIABLES
    result,       \* self.result.value: what the display holds
    operator,     \* self.operator: the pending operator
    operand1,     \* self.operand1: the pending operand
    new_operand,  \* self.new_operand: the next digit starts a fresh number
    raised,       \* the exception that escaped the latest call, or "none"
    last,         \* e.control.data of the latest call, "" before the first
    chain         \* history: the presses since the last reset, as long as
                  \* they spell n1 op1 n2 op2 ... nk "=", and the presses
                  \* that follow an "=" or an operator, as long as they
                  \* spell op n "=" or "="

vars == <<result, operator, operand1, new_operand, raised, last, chain>>

\* the buttons the model presses: of the eleven digit buttons, these three
DigitTokens == {"0", "5", "."}
BinaryTokens == {"+", "-", "*", "/"}
TrigTokens == {"sin", "cos", "tan"}
Tokens == DigitTokens \cup BinaryTokens \cup TrigTokens
            \cup {"AC", "sqrt", "log", "ln", "^", "pi", "=", "%", "+/-"}

\* ------------------------------------------------------- history of a chain
ChainOff == [ph |-> "off", acc |-> 0, op |-> "", mixed |-> FALSE]
ChainStart == [ph |-> "start", acc |-> 0, op |-> "", mixed |-> FALSE]

\* the left fold, one step: acc op n in exact arithmetic (1/Den units)
FoldStep(acc, n, op) ==
    CASE op = "" -> n
      [] op = "+" -> acc + n
      [] op = "-" -> acc - n
      [] op = "*" -> (acc * n) \div Den
      [] op = "/" -> IF n > 0 THEN (acc * Den) \div n ELSE -((acc * Den) \div (-n))

\* ph: "start" (nothing pressed since the reset), "num" (a number is being
\* entered), "op" (an operator was just pressed), "done" ("=" closed the
\* chain), "off" (the presses are not of the chain's form).  acc: the fold of
\* the operands closed so far; op: the operator pressed last; mixed: a "*" or
\* "/" was pressed while "+" or "-" was pending.
\* After an "=" that returned with a display r other than "Error": "replaced"
\* (a digit was pressed next), "carried_op" (an operator was pressed next,
\* acc the value of r), "carried_num" (the number n is being entered after
\* it), "carried_done" ("=" was pressed after n, acc the value of r op n).
\* After an operator of a chain, with the running result r on the display:
\* "again_op" (an operator was pressed next, acc the value of r op r for the
\* operator op that was pending), "again_num" (a number n is being entered
\* after it), "again_done" ("=" was pressed after n); mixed: r op r is not r.
\* "equals_again": "=" was pressed right after an "=" that returned with a
\* number on the display, acc the value of that number.
ChainNext(data, reset_case) ==
    IF reset_case THEN ChainStart
    ELSE IF data \in DigitTokens
         THEN IF chain.ph \in {"start", "num", "op"}
              THEN [chain EXCEPT !.ph = "num"]
              ELSE IF chain.ph \in {"carried_op", "carried_num"}
              THEN [chain EXCEPT !.ph = "carried_num"]
              ELSE IF chain.ph \in {"again_op", "again_num"}
              THEN [chain EXCEPT !.ph = "again_num"]
              ELSE IF (last = "=") /\ (raised = "none")
              THEN [ChainOff EXCEPT !.ph = "replaced"]
              ELSE ChainOff
    ELSE IF (data \in BinaryTokens) /\ (last = "=") /\ (raised = "none")
         THEN [ph |-> "carried_op", acc |-> ToFloat(result).v, op |-> data,
               mixed |-> FALSE]
    ELSE IF /\ data = "="
            /\ last = "="
            /\ raised = "none"
            /\ ToFloat(result).exc = "none"
            /\ ~ToFloat(result).out
         THEN [ph |-> "equals_again", acc |-> ToFloat(result).v, op |-> "",
               mixed |-> FALSE]
    ELSE IF data \in BinaryTokens \cup {"="}
         THEN LET n == ToFloat(result)
              IN  IF /\ chain.ph = "num"
                     /\ n.exc = "none"
                     /\ ~n.out
                     /\ ~(chain.op = "/" /\ n.v = 0)
                  THEN [ph |-> IF data = "=" THEN "done" ELSE "op",
                        acc |-> FoldStep(chain.acc, n.v, chain.op),
                        op |-> IF data = "=" THEN "" ELSE data,
                        mixed |-> chain.mixed \/ (chain.op \in {"+", "-"} /\ data \in {"*", "/"})]
                  ELSE IF /\ chain.ph = "carried_num"
                          /\ data = "="
                          /\ n.exc = "none"
                          /\ ~n.out
                          /\ ~(chain.op = "/" /\ n.v = 0)
                  THEN [ph |-> "carried_done",
                        acc |-> FoldStep(chain.acc, n.v, chain.op),
                        op |-> "",
                        mixed |-> FALSE]
                  ELSE IF /\ chain.ph \in {"op", "again_op"}
                          /\ data \in BinaryTokens
                          /\ ~(chain.op = "/" /\ chain.acc = 0)
                  THEN [ph |-> "again_op",
                        acc |-> FoldStep(chain.acc, chain.acc, chain.op),
                        op |-> data,
                        mixed |-> FoldStep(chain.acc, chain.acc, chain.op) # chain.acc]
                  ELSE IF /\ chain.ph = "again_num"
                          /\ data = "="
                          /\ n.exc = "none"
                          /\ ~n.out
                          /\ ~(chain.op = "/" /\ n.v = 0)
                  THEN [ph |-> "again_done",
                        acc |-> FoldStep(chain.acc, n.v, chain.op),
                        op |-> "",
                        mixed |-> chain.mixed]
                  ELSE ChainOff
    ELSE ChainOff

\* ----------------------------------------------------------------- __init__
Init ==
    /\ result = ZeroStr
    /\ operator = "+"
    /\ operand1 = IntV(0)
    /\ new_operand = TRUE
    /\ raised = "none"
    /\ last = ""
    /\ chain = ChainStart

\* -------------------------------------------------------------------- reset
\* reset without the assignment to operand1
reset_keeps_operand1 ==
    /\ operator' = "+"
    /\ new_operand' = TRUE
    /\ UNCHANGED operand1

reset ==
    /\ operator' = "+"
    /\ operand1' = IntV(0)
    /\ new_operand' = TRUE

\* the call returns normally
Returns == raised' = "none"

\* exception e leaves button_clicked before anything was assigned
Escapes(e) ==
    /\ raised' = e
    /\ UNCHANGED <<result, operator, operand1, new_operand>>

\* ----------------------------------------------------------- button_clicked
\* the reset taken for the AC button only
IsResetCase_ac_only(data) == data = "AC"

\* if self.result.value == "Error" or data == "AC"
IsResetCase(data) == (result = ErrorStr) \/ (data = "AC")

\* every call records its button and extends the history
Called(data) ==
    /\ last' = data
    /\ chain' = ChainNext(data, IsResetCase(data))

\* the reset branch clearing the accumulator only
ResetBranch_keeps_display(data) ==
    /\ IsResetCase(data)
    /\ UNCHANGED result
    /\ reset
    /\ Returns
    /\ Called(data)

\* the reset branch without its call of reset
ResetBranch_skips_reset(data) ==
    /\ IsResetCase(data)
    /\ result' = ZeroStr
    /\ UNCHANGED <<operator, operand1, new_operand>>
    /\ Returns
    /\ Called(data)

\* the reset branch letting a digit through as the first of a new number
ResetBranch_enters_digit(data) ==
    /\ IsResetCase(data)
    /\ IF data \in DigitTokens
       THEN /\ result' = StrV(<<data>>)
            /\ operator' = "+"
            /\ operand1' = IntV(0)
            /\ new_operand' = FALSE
       ELSE /\ result' = ZeroStr
            /\ reset
    /\ Returns
    /\ Called(data)

ResetBranch(data) ==
    /\ IsResetCase(data)
    /\ result' = ZeroStr
    /\ reset
    /\ Returns
    /\ Called(data)

\* if self.result.value == "0" or self.new_operand == True
StartsFresh == (result = ZeroStr) \/ (new_operand = TRUE)

DigitEntry(data) ==
    /\ ~IsResetCase(data)
    /\ data \in DigitTokens
    /\ IF StartsFresh
       THEN /\ result' = StrV(<<data>>)
            /\ new_operand' = FALSE
            /\ UNCHANGED <<operator, operand1>>
            /\ Returns
       ELSE IF result.t = "str"
            THEN /\ Width(result.s) < MaxLen
                 /\ result' = StrV(result.s \o <<data>>)
                 /\ UNCHANGED <<operator, operand1, new_operand>>
                 /\ Returns
            ELSE Escapes("TypeError")
    /\ Called(data)

\* an operator pressed while a new operand is awaited replacing the pending
\* operator without evaluating
BinaryOperator_replaces_operator(data) ==
    /\ ~IsResetCase(data)
    /\ data \in BinaryTokens
    /\ LET f == ToFloat(result)
           c == calculate(operand1, f.v, operator)
           g == ToFloat(c.val)
       IN  IF new_operand = TRUE
           THEN /\ operator' = data
                /\ UNCHANGED <<result, operand1, new_operand>>
                /\ Returns
           ELSE IF f.exc # "none" THEN Escapes(f.exc)
           ELSE /\ ~f.out
                /\ IF c.exc # "none" THEN Escapes(c.exc)
                   ELSE /\ ~c.out
                        /\ result' = c.val
                        /\ operator' = data
                        /\ IF c.val = ErrorStr
                           THEN /\ operand1' = StrV(<<"0">>)
                                /\ new_operand' = TRUE
                                /\ Returns
                           ELSE IF g.exc # "none"
                           THEN /\ raised' = g.exc
                                /\ UNCHANGED <<operand1, new_operand>>
                           ELSE /\ operand1' = FloatV(g.v)
                                /\ new_operand' = TRUE
                                /\ Returns
    /\ Called(data)

BinaryOperator(data) ==
    /\ ~IsResetCase(data)
    /\ data \in BinaryTokens
    /\ LET f == ToFloat(result)
           c == calculate(operand1, f.v, operator)
           g == ToFloat(c.val)
       IN  IF f.exc # "none" THEN Escapes(f.exc)
           ELSE /\ ~f.out
                /\ IF c.exc # "none" THEN Escapes(c.exc)
                   ELSE /\ ~c.out
                        /\ result' = c.val
                        /\ operator' = data
                        /\ IF c.val = ErrorStr
                           THEN /\ operand1' = StrV(<<"0">>)
                                /\ new_operand' = TRUE
                                /\ Returns
                           ELSE IF g.exc # "none"
                           THEN /\ raised' = g.exc
                                /\ UNCHANGED <<operand1, new_operand>>
                           ELSE /\ operand1' = FloatV(g.v)
                                /\ new_operand' = TRUE
                                /\ Returns
    /\ Called(data)

\* the scientific functions with log and ln rejecting negative values only
Scientific_zero_in_domain(data, k) ==
    CASE data = "sin" -> StrV(FloatRepr(MathSinDeg(k)))
      [] data = "cos" -> StrV(FloatRepr(MathCosDeg(k)))
      [] data = "tan" -> StrV(FloatRepr(MathTanDeg(k)))
      [] data = "sqrt" -> IF k < 0 THEN ErrorStr ELSE StrV(FloatRepr(MathSqrt(k)))
      [] data = "log" -> IF k < 0 THEN ErrorStr ELSE StrV(FloatRepr(MathLog10(k)))
      [] data = "ln" -> IF k < 0 THEN ErrorStr ELSE StrV(FloatRepr(MathLog(k)))

\* the try blocks of the scientific functions: str(fn(value)), or "Error"
\* when float() raises or the domain check fails
Scientific(data, k) ==
    CASE data = "sin" -> StrV(FloatRepr(MathSinDeg(k)))
      [] data = "cos" -> StrV(FloatRepr(MathCosDeg(k)))
      [] data = "tan" -> StrV(FloatRepr(MathTanDeg(k)))
      [] data = "sqrt" -> IF k < 0 THEN ErrorStr ELSE StrV(FloatRepr(MathSqrt(k)))
      [] data = "log" -> IF k <= 0 THEN ErrorStr ELSE StrV(FloatRepr(MathLog10(k)))
      [] data = "ln" -> IF k <= 0 THEN ErrorStr ELSE StrV(FloatRepr(MathLog(k)))

\* a function that marks its result as a finished operand
Function_sets_flag(data) ==
    /\ ~IsResetCase(data)
    /\ LET f == ToFloat(result)
       IN  /\ ~f.out
           /\ result' = IF f.exc # "none" THEN ErrorStr ELSE Scientific(data, f.v)
    /\ new_operand' = TRUE
    /\ UNCHANGED <<operator, operand1>>
    /\ Returns
    /\ Called(data)

Function(data) ==
    /\ ~IsResetCase(data)
    /\ LET f == ToFloat(result)
       IN  /\ ~f.out
           /\ result' = IF f.exc # "none" THEN ErrorStr ELSE Scientific(data, f.v)
    /\ UNCHANGED <<operator, operand1, new_operand>>
    /\ Returns
    /\ Called(data)

Trig(data) == data \in TrigTokens /\ Function(data)
Sqrt(data) == data = "sqrt" /\ Function(data)
Log(data) == data = "log" /\ Function(data)
Ln(data) == data = "ln" /\ Function(data)

Power(data) ==
    /\ ~IsResetCase(data)
    /\ data = "^"
    /\ operator' = "^"
    /\ LET f == ToFloat(result)
       IN  IF f.exc # "none"
           THEN /\ raised' = f.exc
                /\ UNCHANGED <<result, operand1, new_operand>>
           ELSE /\ ~f.out
                /\ operand1' = FloatV(f.v)
                /\ new_operand' = TRUE
                /\ UNCHANGED result
                /\ Returns
    /\ Called(data)

Pi(data) ==
    /\ ~IsResetCase(data)
    /\ data = "pi"
    /\ result' = StrV(PiRepr)
    /\ UNCHANGED <<operator, operand1, new_operand>>
    /\ Returns
    /\ Called(data)

\* str(self.operand1 ** float(self.result.value)) inside its try block
PowerText ==
    LET f == ToFloat(result)
        p == PyPow(Units(operand1), f.v)
    IN  IF f.exc # "none" \/ ~IsNumber(operand1) THEN ErrorStr
        ELSE IF p.kind = "float" THEN StrV(FloatRepr(p.f))
        ELSE IF p.kind = "complex" THEN StrV(ComplexRepr)
        ELSE ErrorStr

\* "=" that keeps the pending operation, to repeat it at the next "="
Equals_keeps_pending(data) ==
    /\ ~IsResetCase(data)
    /\ data = "="
    /\ LET f == ToFloat(result)
           c == calculate(operand1, f.v, operator)
       IN  IF operator = "^"
           THEN /\ ~f.out
                /\ result' = PowerText
                /\ new_operand' = TRUE
                /\ UNCHANGED <<operator, operand1>>
                /\ Returns
           ELSE IF f.exc # "none" THEN Escapes(f.exc)
           ELSE /\ ~f.out
                /\ IF c.exc # "none" THEN Escapes(c.exc)
                   ELSE /\ ~c.out
                        /\ result' = c.val
                        /\ new_operand' = TRUE
                        /\ operand1' = FloatV(f.v)
                        /\ UNCHANGED operator
                        /\ Returns
    /\ Called(data)

Equals(data) ==
    /\ ~IsResetCase(data)
    /\ data = "="
    /\ LET f == ToFloat(result)
           c == calculate(operand1, f.v, operator)
       IN  IF operator = "^"
           THEN /\ ~f.out
                /\ result' = PowerText
                /\ reset
                /\ Returns
           ELSE IF f.exc # "none" THEN Escapes(f.exc)
           ELSE /\ ~f.out
                /\ IF c.exc # "none" THEN Escapes(c.exc)
                   ELSE /\ ~c.out
                        /\ result' = c.val
                        /\ reset
                        /\ Returns
    /\ Called(data)

Percent(data) ==
    /\ ~IsResetCase(data)
    /\ data = "%"
    /\ LET f == ToFloat(result)
       IN  IF f.exc # "none" THEN Escapes(f.exc)
           ELSE /\ ~f.out
                /\ f.v % 100 = 0
                /\ result' = FloatV(IF f.v < 0 THEN -((-f.v) \div 100) ELSE f.v \div 100)
                /\ reset
                /\ Returns
    /\ Called(data)

\* the sign toggle writing str(abs(x)) without format_number
SignToggle_unformatted(data) ==
    /\ ~IsResetCase(data)
    /\ data = "+/-"
    /\ LET f == ToFloat(result)
       IN  IF f.exc # "none" THEN Escapes(f.exc)
           ELSE /\ ~f.out
                /\ result' = IF f.v > 0 THEN StrV(<<"-">> \o PyStr(result))
                             ELSE IF f.v < 0 THEN StrV(FloatStr(Abs(f.v)))
                             ELSE result
                /\ UNCHANGED <<operator, operand1, new_operand>>
                /\ Returns
    /\ Called(data)

SignToggle(data) ==
    /\ ~IsResetCase(data)
    /\ data = "+/-"
    /\ LET f == ToFloat(result)
       IN  IF f.exc # "none" THEN Escapes(f.exc)
           ELSE /\ ~f.out
                /\ result' = IF f.v > 0 THEN StrV(<<"-">> \o PyStr(result))
                             ELSE IF f.v < 0 THEN StrV(PyStr(format_number(Abs(f.v))))
                             ELSE result
                /\ UNCHANGED <<operator, operand1, new_operand>>
                /\ Returns
    /\ Called(data)

Next ==
    \E data \in Tokens :
        \/ ResetBranch(data)
        \/ DigitEntry(data)
        \/ BinaryOperator(data)
        \/ Trig(data)
        \/ Sqrt(data)
        \/ Log(data)
        \/ Ln(data)
        \/ Power(data)
        \/ Pi(data)
        \/ Equals(data)
        \/ Percent(data)
        \/ SignToggle(data)

Spec == Init /\ [][Next]_vars

\* ------------------------------------------------------------------- claims
\* normalize of the spec: an integral value as an integer, any other value
\* in the decimal representation of the float
NormText(k) == IF k % Den = 0 THEN IntStr(k \div Den) ELSE FloatStr(k)

Defaults == (operator = "+") /\ (operand1 = IntV(0)) /\ (new_operand = TRUE)

FunctionTokens == TrigTokens \cup {"sqrt", "log", "ln"}
NonExitTokens == BinaryTokens \cup FunctionTokens \cup {"^", "=", "%", "+/-", "pi"}

\* C1: binary operators are evaluated strictly left to right: in a chain
\* n1 op1 n2 ... nk "=" pressed from the initial state, without a zero
\* divisor, each operator press shows the running result and stores it as the
\* pending operand, and "=" shows the left fold, normalized.
C1_LeftToRight ==
    /\ (chain.ph = "op") =>
          /\ raised = "none"
          /\ IsNumber(result) /\ Units(result) = chain.acc
          /\ PyStr(result) = NormText(chain.acc)
          /\ IsNumber(operand1) /\ Units(operand1) = chain.acc
          /\ operator = chain.op
          /\ new_operand = TRUE
    /\ (chain.ph = "done") =>
          /\ raised = "none"
          /\ IsNumber(result) /\ Units(result) = chain.acc
          /\ PyStr(result) = NormText(chain.acc)

\* a chain closed by "=" in which "*" or "/" followed "+" or "-"
C1_Witness == (chain.ph = "done") /\ chain.mixed /\ (last = "=") /\ (chain.acc # 0)

\* C2 as stated: with "Error" on the display, pressing an operator, "^", "=",
\* "%", "+/-" or a function leaves the display equal to "Error".
C2_ErrorStays ==
    [][((result = ErrorStr) /\ (last' \in NonExitTokens)) => (result' = ErrorStr)]_vars

\* C2 amended: with "Error" on the display, pressing an operator, "^", "=",
\* "%", "+/-" or a function sets the display to "0" and resets the
\* accumulator, as a digit or AC does: any next press leaves error mode.
C2_ErrorResetsOnAnyPress ==
    [][((result = ErrorStr) /\ (last' \in NonExitTokens))
          => ((result' = ZeroStr) /\ (operator' = "+") /\ (operand1' = IntV(0))
              /\ (new_operand' = TRUE) /\ (raised' = "none"))]_vars

\* a function or operator press has just reset the engine: none of them
\* writes the text "0" in any other way
C2_Witness == (last \in BinaryTokens \cup {"=", "%"}) /\ (result = ZeroStr) /\ Defaults

\* C3: no exception escapes the handler, whatever the sequence of presses.
C3_NoEscape == raised = "none"

\* C4: the display is always parseable as a finite number, or is "Error".
C4_DisplayParseable == (result = ErrorStr) \/ (ToFloat(result).exc = "none")

\* C5: pressing "=" always leaves the accumulator at its defaults.
C5_EqualsResets == (last = "=") => Defaults

\* C6: division by zero yields "Error" for every left operand; on an operator
\* press the display becomes "Error", the pending operand 0, the pending
\* operator the one pressed and the flag true; on "=" the state is reset.
C6_DivisionByZero ==
    /\ \A a \in -Lim..Lim : calculate(FloatV(a), 0, "/").val = ErrorStr
    /\ ((result = ErrorStr) /\ (last \in BinaryTokens)) =>
          /\ IsNumber(operand1) /\ Units(operand1) = 0
          /\ operator = last
          /\ new_operand = TRUE
    /\ ((result = ErrorStr) /\ (last = "=")) => Defaults

\* C7: a binary operator pressed after a "^" b shows "Error" and nothing
\* escapes.
C7_PowerThenOperator ==
    [][((operator = "^") /\ (new_operand = FALSE) /\ (ToFloat(result).exc = "none")
         /\ (last' \in BinaryTokens))
          => ((result' = ErrorStr) /\ (raised' = "none"))]_vars

\* C8: a "^" b "=" shows a ** b normalized (an integral result without a
\* fraction part), and "Error" when the power fails.
C8_PowerAtEquals ==
    [][((operator = "^") /\ (new_operand = FALSE) /\ IsNumber(operand1)
         /\ (ToFloat(result).exc = "none") /\ (last' = "="))
          => LET p == PyPow(Units(operand1), ToFloat(result).v)
             IN  CASE p.kind = "float" -> (~p.f.out => PyStr(result') = NormText(p.f.v))
                   [] p.kind = "complex" -> TRUE
                   [] OTHER -> result' = ErrorStr]_vars

\* C9: an integral value written to the display by a binary operation, "=",
\* a function or "%" is shown without a decimal point.
C9_ResultsNormalized ==
    LET f == ToFloat(result)
    IN  ((last \in BinaryTokens \cup FunctionTokens \cup {"=", "%"})
          /\ (raised = "none") /\ (f.exc = "none") /\ ~f.out /\ (f.v % Den = 0))
          => (CountIn(PyStr(result), {"."}) = 0)

\* C10: a digit or point entered outside error mode replaces the display when
\* it is "0" or the flag is set (clearing the flag) and is appended to it
\* otherwise (flag unchanged); pending operand and operator are unchanged.
C10_DigitEntry ==
    [][((result # ErrorStr) /\ (last' \in DigitTokens))
          => /\ IF (result = ZeroStr) \/ (new_operand = TRUE)
                THEN (result' = StrV(<<last'>>)) /\ (new_operand' = FALSE)
                ELSE (result' = StrV(PyStr(result) \o <<last'>>))
                     /\ (new_operand' = new_operand)
             /\ operand1' = operand1
             /\ operator' = operator]_vars

\* C11: with "Error" on the display, entering a digit or the point, or
\* pressing AC, sets the display to "0" and the accumulator to its defaults
\* (0, "+", true).
C11_ErrorRecovery ==
    [][((result = ErrorStr) /\ (last' \in DigitTokens \cup {"AC"}))
          => ((result' = ZeroStr) /\ (operator' = "+") /\ (operand1' = IntV(0))
              /\ (new_operand' = TRUE))]_vars

\* a digit press has just left error mode: outside error mode a digit that
\* leaves the display "0" clears the flag
C11_Witness == (last \in DigitTokens) /\ (result = ZeroStr) /\ Defaults

\* C12 as stated: with "Error" on the display, entering a digit or point d
\* makes the display the single character d and clears the flag.
C12_DigitStartsFresh ==
    [][((result = ErrorStr) /\ (last' \in DigitTokens))
          => ((result' = StrV(<<last'>>)) /\ (new_operand' = FALSE))]_vars

\* C12 amended: with "Error" on the display, a digit or point d is consumed
\* by the recovery: the display becomes "0" whatever d is, the flag is true
\* and nothing escapes; it is the digit after it that starts the new number.
C12_DigitConsumed ==
    [][((result = ErrorStr) /\ (last' \in DigitTokens))
          => ((result' = ZeroStr) /\ (new_operand' = TRUE) /\ (raised' = "none"))]_vars

\* the digit 5 or the point was pressed on "Error" and the display shows "0"
C12_Witness ==
    (last \in {"5", "."}) /\ (result = ZeroStr) /\ (new_operand = TRUE) /\ (raised = "none")

\* C13: outside error mode sin, cos, tan, sqrt, log, ln, pi and "+/-" change
\* at most the display: pending operand, pending operator and flag are left
\* as they were, whether the function succeeds or shows "Error".
C13_UnaryKeepsAccumulator ==
    [][((result # ErrorStr) /\ (last' \in FunctionTokens \cup {"pi", "+/-"}))
          => ((operand1' = operand1) /\ (operator' = operator)
              /\ (new_operand' = new_operand))]_vars

\* a function has just shown "Error" in the middle of a pending operation
C13_Witness ==
    /\ last \in FunctionTokens
    /\ result = ErrorStr
    /\ operator \in {"-", "*", "/"}
    /\ IsNumber(operand1) /\ Units(operand1) # 0
    /\ new_operand = FALSE

\* C14: with display value x, sqrt shows "Error" exactly when x < 0, log and
\* ln exactly when x <= 0; in the domain the display becomes a number; a
\* display that does not parse shows "Error".
C14_DomainChecks ==
    [][((result # ErrorStr) /\ (last' \in {"sqrt", "log", "ln"}))
          => LET f == ToFloat(result)
                 outside == IF last' = "sqrt" THEN f.v < 0 ELSE f.v <= 0
             IN  /\ raised' = "none"
                 /\ IF f.exc # "none" THEN result' = ErrorStr
                    ELSE /\ (result' = ErrorStr) <=> outside
                         /\ (~outside) => (ToFloat(result').exc = "none")]_vars

\* log or ln has just shown "Error" with nothing pending: the value was <= 0
\* or the display did not parse
C14_Witness ==
    (last \in {"log", "ln"}) /\ (result = ErrorStr) /\ (raised = "none") /\ Defaults

\* C15: outside error mode "^" leaves the display unchanged, sets the
\* pending operator to "^", the pending operand to the value of the display
\* and the flag to true.
C15_PowerRecords ==
    [][((result # ErrorStr) /\ (last' = "^"))
          => /\ result' = result
             /\ operator' = "^"
             /\ IsNumber(operand1') /\ (Units(operand1') = ToFloat(result).v)
             /\ new_operand' = TRUE]_vars

\* C16: outside error mode "%" sets the display to its value divided by 100
\* and resets the accumulator to its defaults.
C16_Percent ==
    [][((result # ErrorStr) /\ (last' = "%"))
          => /\ IsNumber(result') /\ (Units(result') * 100 = ToFloat(result).v)
             /\ operator' = "+"
             /\ operand1' = IntV(0)
             /\ new_operand' = TRUE]_vars

\* C17: with display value x, "+/-" prepends "-" to the text when x > 0,
\* shows the normalized absolute value when x < 0 and changes nothing when
\* x = 0; the value shown afterwards is -x, so that two presses give x back.
C17_SignToggle ==
    [][((result # ErrorStr) /\ (ToFloat(result).exc = "none") /\ (last' = "+/-"))
          => LET x == ToFloat(result).v
                 y == ToFloat(result')
             IN  /\ raised' = "none"
                 /\ (x > 0) => (result' = StrV(<<"-">> \o PyStr(result)))
                 /\ (x < 0) => (result' = StrV(NormText(-x)))
                 /\ (x = 0) => (result' = result)
                 /\ (y.exc = "none") /\ ~y.out /\ (y.v = -x)]_vars

\* "+/-" has just made a negative value positive: it never leaves a value
\* above 0 in any other way
C17_Witness ==
    /\ last = "+/-"
    /\ raised = "none"
    /\ ToFloat(result).exc = "none"
    /\ ToFloat(result).v > 0

\* C18: AC pressed in any state, in error mode or not, with or without a
\* pending operation or an escaped exception, leaves exactly the state of a
\* new engine: display "0", accumulator (0, "+", true).
C18_ClearRestoresInit ==
    (last = "AC") =>
        /\ result = ZeroStr
        /\ operator = "+"
        /\ operand1 = IntV(0)
        /\ new_operand = TRUE
        /\ raised = "none"
        /\ chain = ChainStart

\* AC has been pressed
C18_Witness == (last = "AC") /\ (result = ZeroStr) /\ Defaults /\ (raised = "none")

\* C19: the pending operand is a number whenever it is read: it is the str
\* "0" only while the display is "Error", where no branch reads it, and the
\* next press of any button makes it the number 0 again.
C19_OperandNumericWhenRead ==
    [][(~IsNumber(operand1) \/ ~IsNumber(operand1'))
          => /\ IsNumber(operand1) => ((operand1' = StrV(<<"0">>)) /\ (result' = ErrorStr))
             /\ ~IsNumber(operand1) => ((result = ErrorStr) /\ (operand1' = IntV(0)))]_vars

\* the str "0" is stored: an operator press has divided by zero
C19_Witness == (operand1 = StrV(<<"0">>)) /\ (result = ErrorStr) /\ (last \in BinaryTokens)

\* C20: after an "=" that showed a value r other than "Error", an operator
\* press stages r as the pending operand with the operator pressed, and a
\* number n followed by "=" then shows r op n; a digit pressed directly after
\* the "=" starts a new number that replaces r.
C20_ResultCarriesOver ==
    /\ (chain.ph = "carried_op") =>
          /\ raised = "none"
          /\ IsNumber(operand1) /\ Units(operand1) = chain.acc
          /\ operator = chain.op
          /\ new_operand = TRUE
    /\ (chain.ph = "carried_done") =>
          /\ raised = "none"
          /\ IsNumber(result) /\ Units(result) = chain.acc
    /\ (chain.ph = "replaced") =>
          /\ raised = "none"
          /\ result = StrV(<<last>>)
          /\ new_operand = FALSE

\* C21: a binary operator pressed right after a binary operator that left a
\* running result r on the display does not merely replace the pending
\* operator: it evaluates r op r for the pending operator op ("Error" for
\* 0 / 0), shows the result and stores it as the pending operand with the
\* operator pressed; a number n and "=" after it show (r op r) op2 n.
C21_OperatorAgainEvaluates ==
    [][/\ ((last \in BinaryTokens) /\ (raised = "none") /\ (result # ErrorStr)
            /\ (last' \in BinaryTokens))
          => LET r == ToFloat(result).v
             IN  /\ new_operand = TRUE
                 /\ IsNumber(operand1) /\ (Units(operand1) = r)
                 /\ raised' = "none"
                 /\ operator' = last'
                 /\ new_operand' = TRUE
                 /\ IF (operator = "/") /\ (r = 0)
                    THEN result' = ErrorStr
                    ELSE /\ IsNumber(result')
                         /\ Units(result') = FoldStep(r, r, operator)
                         /\ PyStr(result') = NormText(FoldStep(r, r, operator))
                         /\ IsNumber(operand1')
                         /\ Units(operand1') = FoldStep(r, r, operator)
       /\ (chain'.ph = "again_done")
          => ((raised' = "none") /\ IsNumber(result')
              /\ (Units(result') = chain'.acc))]_vars

\* n1 op op2 n "=" has been pressed, with r op r different from r, and shows
\* a value other than 0 (.5 + * 5 = shows 5, not 2.5)
C21_Witness ==
    (chain.ph = "again_done") /\ chain.mixed /\ (last = "=") /\ (chain.acc # 0)

\* C22: "=" pressed right after an "=" that left a number of value r on the
\* display leaves a number of the same value r and the accumulator at its
\* defaults; pressed right after an "=" that left "Error" it leaves display
\* "0" and the accumulator at its defaults.
C22_EqualsIdempotent ==
    [][((last = "=") /\ (last' = "="))
          => /\ ((result # ErrorStr) /\ (ToFloat(result).exc = "none"))
                => /\ raised' = "none"
                   /\ ToFloat(result').exc = "none"
                   /\ ~ToFloat(result').out
                   /\ ToFloat(result').v = ToFloat(result).v
                   /\ PyStr(result') = NormText(ToFloat(result).v)
                   /\ operator' = "+"
                   /\ operand1' = IntV(0)
                   /\ new_operand' = TRUE
             /\ (result = ErrorStr)
                => /\ raised' = "none"
                   /\ result' = ZeroStr
                   /\ operator' = "+"
                   /\ operand1' = IntV(0)
                   /\ new_operand' = TRUE]_vars

\* "=" has been pressed twice in a row on a value other than 0
C22_Witness ==
    /\ chain.ph = "equals_again"
    /\ chain.acc # 0
    /\ last = "="
    /\ IsNumber(result) /\ (Units(result) = chain.acc)
    /\ Defaults

====
